---- MODULE Spec2Model ----
(***************************************************************************)
(* Trusted AI SOC Lite: the analysis-and-decision pipeline                 *)
(* (src/src/trusted_ai_soc_lite).                                          *)
(*                                                                         *)
(* The durable state is the data directory: scans/, model_state.json,      *)
(* alerts/, responses/ and audit_log.jsonl.  Every function of the package *)
(* is an operator from (file system, inputs) to (file system, outcome),    *)
(* an outcome being a returned value, a raised exception or the death of   *)
(* the process.  Every entry point is synchronous and single-threaded, so  *)
(* one call is one action.                                                 *)
(***************************************************************************)
EXTENDS Integers, Sequences, FiniteSets, TLC

VARIABLES
    fs,        \* the data directory
    pre,       \* the data directory as it was when the last call started
    last,      \* the last call: its entry point, inputs and outcome
    calls,     \* number of calls made so far
    failures,  \* number of those calls in which a write failed
    appended,  \* the entries handed to append_audit_entry by its direct callers
    running,   \* the analyses under way in processes that share the data directory
    earlier    \* the analyses made so far, where they are recorded

vars == <<fs, pre, last, calls, failures, appended, running, earlier>>

----------------------------------------------------------------------------
(* Bounds *)

MaxCalls == 3
MaxFindings == 2
MaxTime == 1
MaxLogLines == 3

----------------------------------------------------------------------------
(* Generic helpers *)

None == "None"

Range(s) == {s[i] : i \in 1..Len(s)}

SeqsUpTo(S, n) == UNION {[1..k -> S] : k \in 0..n}

RECURSIVE SumSeq(_)
SumSeq(s) == IF s = <<>> THEN 0 ELSE Head(s) + SumSeq(Tail(s))

RECURSIVE GCD(_, _)
GCD(a, b) == IF b = 0 THEN a ELSE GCD(b, a % b)

\* Python floats that the pipeline produces are ratios of small integers;
\* they are kept exact, as a numerator over a positive denominator.
Frac(n, d) ==
    LET g == GCD(IF n < 0 THEN -n ELSE n, d)
    IN  IF n = 0 THEN [num |-> 0, den |-> 1] ELSE [num |-> n \div g, den |-> d \div g]

float(n) == Frac(n, 1)

\* Outcomes of a call.
Returned(v) == [kind |-> "returned", exc |-> None, value |-> v]
Raised(e)   == [kind |-> "raised", exc |-> e, value |-> None]
Crashed     == [kind |-> "crashed", exc |-> None, value |-> None]

----------------------------------------------------------------------------
(* I/O faults: what the environment does to one write of a call.           *)
(* A write is Path.write_text (open "w", which truncates, then write) or   *)
(* the append of one audit line.  `effect` is what the file holds when the *)
(* write stops: "unchanged" (the open failed), "empty" (truncated, nothing *)
(* written), "partial" (some of the text) or "complete".  With `crash` the *)
(* process dies there; without it the write raises OSError.                *)

NoFault == [at |-> "none", effect |-> "complete", crash |-> FALSE]

WriteSteps ==
    {"scan_failure", "scan_snapshot", "model_state", "alert_file", "audit_append",
     "response_block", "response_email", "response_ticket",
     "audit_block", "audit_email", "audit_ticket"}

AppendSteps == {"audit_append", "audit_block", "audit_email", "audit_ticket"}

\* An append has one more way to stop: "no_newline", the record written and
\* its terminating newline not.
EffectsAt(step, crash) ==
    {"unchanged", "empty", "partial"}
    \cup (IF step \in AppendSteps THEN {"no_newline"} ELSE {})
    \cup (IF crash THEN {"complete"} ELSE {})

FaultsAt(steps) ==
    {NoFault}
    \cup {f \in [at : steps,
                 effect : {"unchanged", "empty", "partial", "no_newline", "complete"},
                 crash : BOOLEAN] : f.effect \in EffectsAt(f.at, f.crash)}

Hits(fault, step) == fault.at = step

FaultOutcome(fault) == IF fault.crash THEN Crashed ELSE Raised("OSError")

\* Path.write_text(text): the content of the file afterwards, `old` being its
\* content before (Absent when it does not exist).
Absent  == [kind |-> "absent"]
Empty   == [kind |-> "empty"]
Partial == [kind |-> "partial"]

write_text(old, content, fault, step) ==
    IF ~Hits(fault, step) THEN content
    ELSE CASE fault.effect = "unchanged" -> old
           [] fault.effect = "empty"     -> Empty
           [] fault.effect = "partial"   -> Partial
           [] fault.effect = "complete"  -> content

\* A directory: whether it exists, and its files (name -> content).
NoDir == [exists |-> FALSE, files |-> <<>>]

mkdir(dir) == [dir EXCEPT !.exists = TRUE]

FileOf(dir, name) == IF name \in DOMAIN dir.files THEN dir.files[name] ELSE Absent

PutFile(dir, name, content) ==
    IF content = Absent THEN dir
    ELSE [dir EXCEPT !.files =
            [n \in DOMAIN dir.files \cup {name} |-> IF n = name THEN content ELSE dir.files[n]]]

Complete(content) == content.kind \notin {"absent", "empty", "partial"}

----------------------------------------------------------------------------
(* data_models.py *)

\* The methods a Serializable dataclass has; calling any other attribute
\* raises AttributeError.
SerializableMethods == {"to_dict", "to_json", "from_json", "from_dict"}

HasMethod(name) == name \in SerializableMethods

\* datetime.isoformat() leaves the microseconds out when they are zero;
\* datetime.fromisoformat() reads both forms.  A time is a number of
\* microseconds, MicrosPerSecond to the second.
MicrosPerSecond == 2

isoformat(t) ==
    IF t % MicrosPerSecond = 0
    THEN [seconds |-> t \div MicrosPerSecond]
    ELSE [seconds |-> t \div MicrosPerSecond, micros |-> t % MicrosPerSecond]

fromisoformat(s) ==
    IF "micros" \in DOMAIN s
    THEN s.seconds * MicrosPerSecond + s.micros
    ELSE s.seconds * MicrosPerSecond

AuditEntry(timestamp, actor, action, context) ==
    [timestamp |-> timestamp, actor |-> actor, action |-> action, context |-> context]

\* Serializable.to_json of an AuditEntry: the text of one JSON object, the
\* timestamp as its ISO string.
to_json(entry) ==
    [kind |-> "object",
     timestamp |-> [type |-> "iso", text |-> isoformat(entry.timestamp)],
     actor |-> entry.actor, action |-> entry.action, context |-> entry.context]

\* Lines that to_json never writes.  A line is read as text (it decodes as
\* UTF-8) unless it is "undecodable".
MalformedKinds ==
    {"blank",            \* empty or white space
     "truncated",        \* the start of a record, cut short
     "garbage",          \* text that is not JSON
     "array",            \* JSON, not an object
     "bad_timestamp",    \* an object whose timestamp string is not an ISO date
     "bad_context",      \* an object whose context is not a mapping
     "no_fields",        \* the object {}
     "undecodable"}      \* bytes that are not UTF-8

Malformed(k) == [kind |-> k]

\* AuditEntry.from_json: json.loads, then from_dict with its defaults.  `now`
\* is datetime.utcnow(), the timestamp given to an object that has none.
from_json(line, now) ==
    CASE line.kind \in {"truncated", "garbage", "merged"} -> Raised("JSONDecodeError")
      [] line.kind = "array"         -> Raised("AttributeError")
      [] line.kind = "bad_timestamp" -> Raised("ValueError")
      [] line.kind = "bad_context"   -> Raised("AttributeError")
      [] line.kind = "no_fields"     -> Returned(AuditEntry(now, "", "", <<>>))
      [] line.kind = "object"        ->
            Returned(AuditEntry(fromisoformat(line.timestamp.text),
                                line.actor, line.action, line.context))

----------------------------------------------------------------------------
(* audit/logger.py *)

\* audit_log.jsonl: Absent, or its terminated lines and what follows the last
\* newline (NoTail, or a record still waiting for its newline).
NoTail == [kind |-> "none"]

LogFile(lines, tail) == [kind |-> "log", lines |-> lines, tail |-> tail]

LinesOf(log) == IF log.kind = "absent" THEN <<>> ELSE log.lines
TailOf(log)  == IF log.kind = "absent" THEN NoTail ELSE log.tail

\* What one more record makes of an unterminated tail: the two run together
\* on one line, which is not JSON.
Merged == [kind |-> "merged"]

\* The same two writes on a file opened in mode "w": what was there is lost.
AppendTextTruncating(log, text) == LogFile(<<text>>, NoTail)

\* fh.write(entry.to_json()); fh.write("\n") on the file opened in mode "a".
AppendText(log, text) ==
    LogFile(Append(LinesOf(log), IF TailOf(log) = NoTail THEN text ELSE Merged), NoTail)

AppendStopped(log, text, effect) ==
    CASE effect = "unchanged"  -> log
      [] effect = "empty"      -> LogFile(LinesOf(log), TailOf(log))
      [] effect = "partial"    ->
            LogFile(LinesOf(log),
                    IF TailOf(log) = NoTail THEN Malformed("truncated") ELSE Merged)
      [] effect = "no_newline" ->
            LogFile(LinesOf(log), IF TailOf(log) = NoTail THEN text ELSE Merged)
      [] effect = "complete"   -> AppendText(log, text)

append_audit_entry(f, entry, fault, step) ==
    IF Hits(fault, step)
    THEN [fs |-> [f EXCEPT !.audit_log = AppendStopped(f.audit_log, to_json(entry), fault.effect)],
          out |-> FaultOutcome(fault)]
    ELSE [fs |-> [f EXCEPT !.audit_log = AppendText(f.audit_log, to_json(entry))],
          out |-> Returned(None)]

\* fh.readlines(): the terminated lines, then the unterminated rest if any.
readlines(log) ==
    IF TailOf(log) = NoTail THEN LinesOf(log) ELSE Append(LinesOf(log), TailOf(log))

\* lines[-limit:]
LastLines(lines, limit) ==
    IF limit >= Len(lines) THEN lines
    ELSE SubSeq(lines, Len(lines) - limit + 1, Len(lines))

RECURSIVE ParseLines(_, _)
ParseLines(lines, now) ==
    IF lines = <<>> THEN <<>>
    ELSE LET line == Head(lines)
             rest == ParseLines(Tail(lines), now)
         IN  IF line.kind = "blank" THEN rest
             ELSE LET parsed == from_json(line, now)
                  IN  IF parsed.kind = "raised" THEN rest ELSE <<parsed.value>> \o rest

\* limit is <<>> (None, the default) or <<n>>, n a natural number.
load_audit_entries(f, limit, now) ==
    IF f.audit_log.kind = "absent" THEN Returned(<<>>)
    ELSE LET lines == readlines(f.audit_log)
         IN  IF \E i \in 1..Len(lines) : lines[i].kind = "undecodable"
             THEN Raised("UnicodeDecodeError")
             ELSE LET kept == IF limit # <<>> /\ limit[1] # 0
                              THEN LastLines(lines, limit[1]) ELSE lines
                  IN  Returned(ParseLines(kept, now))

----------------------------------------------------------------------------
(* Exact arithmetic on the floats of the engine *)

\* Sums are taken over the least common denominator and products after
\* cancelling across, which keeps the integers small.
QAdd(a, b) ==
    LET l == (a.den \div GCD(a.den, b.den)) * b.den
    IN  Frac(a.num * (l \div a.den) + b.num * (l \div b.den), l)

QSub(a, b) ==
    LET l == (a.den \div GCD(a.den, b.den)) * b.den
    IN  Frac(a.num * (l \div a.den) - b.num * (l \div b.den), l)

QMul(a, b) ==
    LET g1 == GCD(IF a.num < 0 THEN -a.num ELSE a.num, b.den)
        g2 == GCD(IF b.num < 0 THEN -b.num ELSE b.num, a.den)
    IN  Frac((a.num \div g1) * (b.num \div g2), (a.den \div g2) * (b.den \div g1))
QDivInt(a, n) == Frac(a.num, a.den * n)
QAbs(a) == [num |-> IF a.num < 0 THEN -a.num ELSE a.num, den |-> a.den]
QLess(a, b) == a.num * b.den < b.num * a.den
QMax(a, b) == IF QLess(a, b) THEN b ELSE a
QMin(a, b) == IF QLess(a, b) THEN a ELSE b

RECURSIVE QSum(_)
QSum(s) == IF s = <<>> THEN float(0) ELSE QAdd(Head(s), QSum(Tail(s)))

RECURSIVE ISqrtIn(_, _, _)
ISqrtIn(n, lo, hi) ==
    IF lo >= hi THEN lo
    ELSE LET mid == (lo + hi + 1) \div 2
         IN  IF mid * mid <= n THEN ISqrtIn(n, mid, hi) ELSE ISqrtIn(n, lo, mid - 1)

\* The integer part of the square root of n.
ISqrt(n) == ISqrtIn(n, 0, IF n < 46340 THEN n ELSE 46340)

----------------------------------------------------------------------------
(* ai/engine.py *)

FeatureNames ==
    <<"total_ports", "unique_services", "high_risk", "open_critical_ports", "average_port">>

critical_ports == {22, 80, 443, 3389, 3306}

\* A feature vector that carries the number of the call that made it.
FeatureVectorStamped(values, feature_names) ==
    [kind |-> "FeatureVector",
     values |-> [j \in 1..Len(values) |-> IF j = 1 THEN QAdd(values[j], float(calls))
                                           ELSE values[j]],
     feature_names |-> feature_names]

FeatureVector(values, feature_names) ==
    [kind |-> "FeatureVector", values |-> values, feature_names |-> feature_names]

IsHighRisk(finding) == finding.cve # <<>>

\* The privileged ports in place of the critical ones.
IsPrivilegedPort(finding) == finding.port < 1024

IsCriticalPort(finding) == finding.port \in critical_ports

_extract_features(observation) ==
    LET findings == observation.findings
        total_ports == Len(findings)
        high_risk == Cardinality({i \in 1..total_ports : IsHighRisk(findings[i])})
        open_critical_ports == Cardinality({i \in 1..total_ports : IsCriticalPort(findings[i])})
        avg_port == IF total_ports # 0
                    THEN Frac(SumSeq([i \in 1..total_ports |-> findings[i].port]), total_ports)
                    ELSE float(0)
        unique_services == Cardinality({findings[i].service : i \in 1..total_ports})
    IN  FeatureVector(<<float(total_ports), float(unique_services), float(high_risk),
                        float(open_critical_ports), avg_port>>,
                      FeatureNames)

\* model_state.json with the names left out.
ModelStateUnnamed(vectors, feature_names) ==
    [kind |-> "json", vectors |-> vectors, feature_names |-> <<>>]

\* model_state.json as json.dumps writes it.
ModelState(vectors, feature_names) ==
    [kind |-> "json", vectors |-> vectors, feature_names |-> feature_names]

_load_historical_features(file) ==
    CASE file.kind = "absent" -> Returned([vectors |-> <<>>, feature_names |-> <<>>])
      [] file.kind \in {"empty", "partial"} -> Raised("JSONDecodeError")
      [] file.kind = "json" ->
            Returned([vectors |-> file.vectors, feature_names |-> file.feature_names])

_save_historical_features(f, vectors, feature_names, fault) ==
    LET payload == ModelState(vectors, feature_names)
    IN  [fs |-> [f EXCEPT !.model_state = write_text(@, payload, fault, "model_state")],
         out |-> IF Hits(fault, "model_state") THEN FaultOutcome(fault) ELSE Returned(None)]

Column(vectors, j) == [i \in 1..Len(vectors) |-> vectors[i][j]]

mean(values) == QDivInt(QSum(values), Len(values))

\* The population variance: pstdev is its square root.
pvariance(values) ==
    LET mu == mean(values)
    IN  QDivInt(QSum([i \in 1..Len(values) |->
                        QMul(QSub(values[i], mu), QSub(values[i], mu))]), Len(values))

\* The deviations are kept as variances: only their being zero and the
\* ratio |value - mu| / sigma are ever used.
_compute_baseline_stats(vectors) ==
    LET width == IF vectors = <<>> THEN 0 ELSE Len(vectors[1])
    IN  [means |-> [j \in 1..width |-> mean(Column(vectors, j))],
         variances |-> [j \in 1..width |->
                          IF Len(vectors) > 1 THEN pvariance(Column(vectors, j))
                          ELSE float(0)]]

\* z-scores are in units of 1/ZScale, rounded down, and a z-score above ZCap
\* is kept as ZCap: one such dimension already puts the average of the five
\* above 2.5 and the term min(4.0, z_score * 1.5) of the risk at 4.0.
ZScale == 100

ZCap == 100

\* pstdev is kept as an integer: the integer part of sigma * SigmaScale, the
\* scale being the power of ten that gives it four to five digits.
SigmaScale(variance) ==
    LET whole == variance.num \div variance.den
    IN  IF whole < 20 THEN 10000
        ELSE IF whole < 2000 THEN 1000
        ELSE IF whole < 200000 THEN 100
        ELSE IF whole < 20000000 THEN 10
        ELSE 1

ScaledSigma(variance) ==
    LET scale == SigmaScale(variance)
        once == (variance.num \div variance.den) * scale
                + ((variance.num % variance.den) * scale) \div variance.den
        left == ((variance.num % variance.den) * scale) % variance.den
    IN  ISqrt(once * scale + (left * scale) \div variance.den)

\* abs(value - mu) / sigma in units of 1/ZScale, from the ratio of
\* abs(value - mu) * SigmaScale to the scaled sigma.
ZRatio(value, mu, variance) ==
    LET ratio == QMul(QAbs(QSub(value, mu)),
                      Frac(SigmaScale(variance), ScaledSigma(variance)))
        whole == ratio.num \div ratio.den
    IN  IF whole >= ZCap THEN ZCap * ZScale
        ELSE whole * ZScale + ((ratio.num % ratio.den) * ZScale) \div ratio.den

\* The same with a dimension without variance counted as far from the mean
\* whenever the value differs from it.
ZOfUnguarded(value, mu, variance) ==
    IF variance.num = 0 THEN (IF value = mu THEN 0 ELSE ZCap * ZScale)
    ELSE ZRatio(value, mu, variance)

ZOf(value, mu, variance) ==
    IF variance.num = 0 THEN 0 ELSE ZRatio(value, mu, variance)

_avg_z_score(values, means, variances) ==
    IF values = <<>> THEN 0
    ELSE LET n == IF Len(values) < Len(means) THEN Len(values) ELSE Len(means)
             z_scores == [j \in 1..n |-> ZOf(values[j], means[j], variances[j])]
         IN  IF n = 0 THEN 0 ELSE SumSeq(z_scores) \div n

\* _heuristic_risk without its last line: the sum of the four terms, as it is
\* before max(0.0, min(10.0, base)).
_heuristic_risk_unclamped(values, baseline_mean, z_score) ==
    LET direct == QAdd(QAdd(QMul(values[3], Frac(5, 2)), QMul(values[4], Frac(3, 2))),
                       QMul(values[1], Frac(1, 4)))
        ports == QMax(float(0), QDivInt(QSub(values[5], float(1024)), 200))
        drift == QDivInt(QSum([j \in 1..(IF Len(values) < Len(baseline_mean)
                                         THEN Len(values) ELSE Len(baseline_mean)) |->
                                 QAbs(QSub(values[j], baseline_mean[j]))]), Len(values))
        drifted == IF baseline_mean # <<>>
                   THEN QMin(float(4), QMul(drift, Frac(1, 2))) ELSE float(0)
        zpart == QMin(float(4), QMul(Frac(z_score, ZScale), Frac(3, 2)))
    IN  QAdd(QAdd(QAdd(direct, ports), drifted), zpart)

\* baseline_mean is None (as <<>>) or the means; both an absent and an empty
\* list of means are falsy.
_heuristic_risk(values, baseline_mean, z_score) ==
    LET total_ports == values[1]
        high_risk == values[3]
        open_critical_ports == values[4]
        avg_port == values[5]
        direct == QAdd(QAdd(QMul(high_risk, Frac(5, 2)), QMul(open_critical_ports, Frac(3, 2))),
                       QMul(total_ports, Frac(1, 4)))
        ports == QMax(float(0), QDivInt(QSub(avg_port, float(1024)), 200))
        drift == QDivInt(QSum([j \in 1..(IF Len(values) < Len(baseline_mean)
                                         THEN Len(values) ELSE Len(baseline_mean)) |->
                                 QAbs(QSub(values[j], baseline_mean[j]))]), Len(values))
        drifted == IF baseline_mean # <<>>
                   THEN QMin(float(4), QMul(drift, Frac(1, 2))) ELSE float(0)
        zpart == QMin(float(4), QMul(Frac(z_score, ZScale), Frac(3, 2)))
        base == QAdd(QAdd(QAdd(direct, ports), drifted), zpart)
    IN  QMax(float(0), QMin(float(10), base))

----------------------------------------------------------------------------
(* ai/xai.py *)

\* build_insights(model, feature_vector) starts with
\* feature_vector.values.reshape(1, -1).  Its one caller hands it the
\* FeatureVector as `model` and the baseline means (None or a list) as
\* `feature_vector`; neither None nor a list has an attribute `values`, and
\* the values of a FeatureVector are a list, which has no `reshape`.
NoMeans == [kind |-> "None"]
ListOf(items) == [kind |-> "list", items |-> items]

build_insights(model, feature_vector) == Raised("AttributeError")

----------------------------------------------------------------------------
(* ai/engine.py: analyze_scan *)

AnalysisResult(observation, risk_score, anomaly_flag, anomaly_reason, insights) ==
    [observation |-> observation, risk_score |-> risk_score, anomaly_flag |-> anomaly_flag,
     anomaly_reason |-> anomaly_reason, insights |-> insights]

\* 2.5, in units of 1/ZScale.
AnomalyThreshold == 250

\* The history the file would hold if the baseline were read again at the
\* moment of the save.
ExtendedHistoryOfFile(vectors, values) ==
    IF fs.model_state.kind = "json" THEN Append(fs.model_state.vectors, values)
    ELSE <<values>>

\* Lines 121-132: the deviation signal (z_score) and the anomaly flag of the
\* current values against the history that was loaded.
DeviationSignal(vectors, values) ==
    IF vectors = <<>> THEN 0
    ELSE _avg_z_score(values, _compute_baseline_stats(vectors).means,
                      _compute_baseline_stats(vectors).variances)

AnomalyFlag(vectors, values) ==
    IF vectors = <<>> THEN FALSE ELSE DeviationSignal(vectors, values) > AnomalyThreshold

\* Lines 121-134: the history that is saved, from the one that was loaded.
ExtendedHistory(vectors, values) ==
    IF vectors = <<>> THEN <<values>> ELSE Append(vectors, values)

analyze_scan(f, observation, fault) ==
    LET feature_vector == _extract_features(observation)
        loaded == _load_historical_features(f.model_state)
    IN  IF loaded.kind = "raised" THEN [fs |-> f, out |-> loaded]
        ELSE
        LET cold == loaded.value.vectors = <<>>
            stats == _compute_baseline_stats(loaded.value.vectors)
            baseline_means == IF cold THEN NoMeans ELSE ListOf(stats.means)
            z_score == DeviationSignal(loaded.value.vectors, feature_vector.values)
            anomaly_flag == AnomalyFlag(loaded.value.vectors, feature_vector.values)
            anomaly_reason ==
                IF cold THEN "Baseline established from first observation"
                ELSE IF anomaly_flag THEN "Deviation from historical baseline detected"
                ELSE "Within learned baseline"
            historical_vectors == ExtendedHistory(loaded.value.vectors, feature_vector.values)
            saved == _save_historical_features(f, historical_vectors,
                                               feature_vector.feature_names, fault)
            risk_score == _heuristic_risk(feature_vector.values,
                                          IF cold THEN <<>> ELSE stats.means, z_score)
            insights == build_insights(feature_vector, baseline_means)
        IN  IF saved.out.kind # "returned" THEN saved
            ELSE IF insights.kind = "raised" THEN [fs |-> saved.fs, out |-> insights]
            ELSE [fs |-> saved.fs,
                  out |-> Returned(AnalysisResult(observation, risk_score, anomaly_flag,
                                                  anomaly_reason, insights.value))]

----------------------------------------------------------------------------
(* scanners/nmap_scanner.py *)

SERVICE_TO_CVES(service) ==
    CASE service = "ssh"   -> <<"CVE-2023-38408", "CVE-2018-15473">>
      [] service = "http"  -> <<"CVE-2021-41773", "CVE-2022-23943">>
      [] service = "https" -> <<"CVE-2022-0778">>
      [] service = "mysql" -> <<"CVE-2021-35604">>
      [] service = "rdp"   -> <<"CVE-2019-0708">>
      [] OTHER             -> <<>>

PortFinding(host, port, service, product, cve) ==
    [host |-> host, protocol |-> "tcp", port |-> port, service |-> service,
     product |-> product, cve |-> cve]

ScanObservation(timestamp, findings) ==
    [timestamp |-> timestamp, scanner |-> "nmap", findings |-> findings]

\* random.seed(42), then random.sample(range(20, 1024), k=3) and one
\* random.choice(services) per port: the same three findings at every call.
_simulate_findings(target) ==
    <<PortFinding(target, 674, "https", "simulated", SERVICE_TO_CVES("https")),
      PortFinding(target, 134, "http", "simulated", SERVICE_TO_CVES("http")),
      PortFinding(target, 45, "http", "simulated", SERVICE_TO_CVES("http"))>>

\* What nmap reports of one open port: the cve list is that of the service.
_build_findings_from_nmap(ports) ==
    [i \in 1..Len(ports) |->
        PortFinding(ports[i].host, ports[i].port, ports[i].service, None,
                    SERVICE_TO_CVES(ports[i].service))]

\* scans/nmap_failure.json and scans/scan_<timestamp>.json
NmapFailureName == <<"nmap_failure">>

ScanFileName(timestamp) == <<"scan", isoformat(timestamp)>>

\* nmap is [ok |-> TRUE, ports |-> what the scan found], or [ok |-> FALSE]
\* when the import or the scan raises.  The output directory is always given.
run_scan(f, nmap, target, now, fault) ==
    LET findings == IF nmap.ok THEN _build_findings_from_nmap(nmap.ports)
                    ELSE _simulate_findings(target)
        made == [f EXCEPT !.scans = mkdir(@)]
        failure == [kind |-> "json", error |-> "nmap"]
        reported ==
            IF nmap.ok THEN f
            ELSE [made EXCEPT !.scans =
                    PutFile(@, NmapFailureName,
                            write_text(FileOf(@, NmapFailureName), failure, fault, "scan_failure"))]
        observation == ScanObservation(now, findings)
        ready == [reported EXCEPT !.scans = mkdir(@)]
        name == ScanFileName(observation.timestamp)
    IN  IF ~nmap.ok /\ Hits(fault, "scan_failure")
        THEN [fs |-> reported, out |-> FaultOutcome(fault)]
        ELSE IF ~HasMethod("json")
        THEN [fs |-> ready, out |-> Raised("AttributeError")]
        ELSE IF Hits(fault, "scan_snapshot")
        THEN [fs |-> [ready EXCEPT !.scans =
                        PutFile(@, name, write_text(FileOf(@, name),
                                                    [kind |-> "json", observation |-> observation],
                                                    fault, "scan_snapshot"))],
              out |-> FaultOutcome(fault)]
        ELSE [fs |-> [ready EXCEPT !.scans =
                        PutFile(@, name, [kind |-> "json", observation |-> observation])],
              out |-> Returned(observation)]

----------------------------------------------------------------------------
(* responder/actions.py *)

ResponseFileName(alert, action) == <<alert.id, action>>

_write_action_snapshot(f, alert, action, payload, fault, step) ==
    LET made == [f EXCEPT !.responses = mkdir(@)]
        name == ResponseFileName(alert, action)
    IN  [fs |-> [made EXCEPT !.responses =
                    PutFile(@, name, write_text(FileOf(@, name),
                                                [kind |-> "json", payload |-> payload],
                                                fault, step))],
         out |-> IF Hits(fault, step) THEN FaultOutcome(fault) ELSE Returned(None)]

\* `not alert.related_ip`: None and the empty string are both falsy.
Falsy(x) == x = None \/ x = ""

block_ip(f, alert, now, fault) ==
    IF Falsy(alert.related_ip) THEN [fs |-> f, out |-> Returned(None)]
    ELSE
    LET payload == [timestamp |-> isoformat(now), action |-> "block_ip", ip |-> alert.related_ip]
        snap == _write_action_snapshot(f, alert, "block", payload, fault, "response_block")
    IN  IF snap.out.kind # "returned" THEN snap
        ELSE append_audit_entry(snap.fs,
                AuditEntry(now, "automation", "block_ip",
                           [ip |-> alert.related_ip, alert_id |-> alert.id]),
                fault, "audit_block")

\* send_email with its two steps exchanged: the audit entry first, then the
\* snapshot.
send_email_audit_first(f, alert, now, fault) ==
    LET payload == [timestamp |-> isoformat(now), action |-> "send_email",
                    subject |-> alert.title, severity |-> alert.severity]
        logged == append_audit_entry(f,
                    AuditEntry(now, "automation", "send_email",
                               [alert_id |-> alert.id, subject |-> alert.title]),
                    fault, "audit_email")
    IN  IF logged.out.kind # "returned" THEN logged
        ELSE _write_action_snapshot(logged.fs, alert, "email", payload, fault, "response_email")

send_email(f, alert, now, fault) ==
    LET payload == [timestamp |-> isoformat(now), action |-> "send_email",
                    subject |-> alert.title, severity |-> alert.severity]
        snap == _write_action_snapshot(f, alert, "email", payload, fault, "response_email")
    IN  IF snap.out.kind # "returned" THEN snap
        ELSE append_audit_entry(snap.fs,
                AuditEntry(now, "automation", "send_email",
                           [alert_id |-> alert.id, subject |-> alert.title]),
                fault, "audit_email")

create_ticket(f, alert, now, fault) ==
    LET payload == [timestamp |-> isoformat(now), action |-> "create_ticket",
                    title |-> alert.title]
        snap == _write_action_snapshot(f, alert, "ticket", payload, fault, "response_ticket")
    IN  IF snap.out.kind # "returned" THEN snap
        ELSE append_audit_entry(snap.fs,
                AuditEntry(now, "automation", "create_ticket",
                           [alert_id |-> alert.id, title |-> alert.title]),
                fault, "audit_ticket")

----------------------------------------------------------------------------
(* pipeline.py *)

\* The same thresholds as exclusive lower bounds.
_severity_from_score_exclusive(score) ==
    IF QLess(float(7), score) THEN "critical"
    ELSE IF QLess(float(5), score) THEN "high"
    ELSE IF QLess(float(3), score) THEN "medium"
    ELSE "low"

_severity_from_score(score) ==
    IF ~QLess(score, float(7)) THEN "critical"
    ELSE IF ~QLess(score, float(5)) THEN "high"
    ELSE IF ~QLess(score, float(3)) THEN "medium"
    ELSE "low"

\* f"{severity.title()} risk exposure detected"
Title(severity) ==
    CASE severity = "critical" -> "Critical risk exposure detected"
      [] severity = "high"     -> "High risk exposure detected"
      [] severity = "medium"   -> "Medium risk exposure detected"
      [] severity = "low"      -> "Low risk exposure detected"

AlertRecord(id, generated_at, severity, title, description, related_ip, analysis) ==
    [id |-> id, generated_at |-> generated_at, severity |-> severity, title |-> title,
     description |-> description, related_ip |-> related_ip,
     recommended_action |-> "Review automated response and validate mitigation",
     analysis |-> analysis]

\* id is str(uuid.uuid4()), now is datetime.utcnow().
_build_alert(analysis, id, now) ==
    LET severity == _severity_from_score(analysis.risk_score)
        related_ip == IF analysis.observation.findings # <<>>
                      THEN analysis.observation.findings[1].host ELSE None
    IN  AlertRecord(id, now, severity, Title(severity), analysis.anomaly_reason,
                    related_ip, analysis)

ResponseSeverities == {"medium", "high", "critical"}

\* The calls of a cycle run in sequence: an exception (or the death of the
\* process) in what ran so far ends the cycle; otherwise the next call runs
\* on what was left.
ThenSendEmail(res, alert, now, fault) ==
    IF res.out.kind # "returned" THEN res ELSE send_email(res.fs, alert, now, fault)

ThenCreateTicket(res, alert, now, fault) ==
    IF res.out.kind # "returned" THEN res ELSE create_ticket(res.fs, alert, now, fault)

ThenReturn(res, value) ==
    IF res.out.kind # "returned" THEN res ELSE [fs |-> res.fs, out |-> Returned(value)]

\* Lines 62-68: the response gate, the three actions in order, and the return.
ResponseGate(f, alert, now, fault) ==
    IF alert.severity \in ResponseSeverities
    THEN ThenReturn(ThenCreateTicket(ThenSendEmail(block_ip(f, alert, now, fault),
                                                   alert, now, fault),
                                     alert, now, fault),
                    alert)
    ELSE [fs |-> f, out |-> Returned(alert)]

ThenResponseGate(res, alert, now, fault) ==
    IF res.out.kind # "returned" THEN res ELSE ResponseGate(res.fs, alert, now, fault)

\* Lines 53-60: the audit entry of the alert.
AuditGeneration(f, alert, now, fault) ==
    ThenResponseGate(append_audit_entry(f,
                        AuditEntry(now, "ai_engine", "generated_alert",
                                   [alert_id |-> alert.id, severity |-> alert.severity]),
                        fault, "audit_append"),
                     alert, now, fault)

\* Lines 48-51: alerts/<id>.json.  alert.json(...) is evaluated before the
\* file is opened.
PersistAlert(f, alert, now, fault) ==
    LET made == [f EXCEPT !.alerts = mkdir(@)]
        written == [made EXCEPT !.alerts =
                      PutFile(@, alert.id,
                              write_text(FileOf(@, alert.id), [kind |-> "json", alert |-> alert],
                                         fault, "alert_file"))]
    IN  IF ~HasMethod("json") THEN [fs |-> made, out |-> Raised("AttributeError")]
        ELSE IF Hits(fault, "alert_file") THEN [fs |-> written, out |-> FaultOutcome(fault)]
        ELSE AuditGeneration(written, alert, now, fault)

\* Lines 45-46, on what run_scan did.
AnalyseAndBuild(scan, id, now, fault) ==
    IF scan.out.kind # "returned" THEN scan
    ELSE LET analysed == analyze_scan(scan.fs, scan.out.value, fault)
         IN  IF analysed.out.kind # "returned" THEN analysed
             ELSE PersistAlert(analysed.fs, _build_alert(analysed.out.value, id, now),
                               now, fault)

run_pipeline_cycle(f, nmap, target, now, id, fault) ==
    AnalyseAndBuild(run_scan(f, nmap, target, now, fault), id, now, fault)

----------------------------------------------------------------------------
(* The state machine *)

\* The processes that may run the package on one data directory, each idle
\* or inside analyze_scan, and what they have done together: the number of
\* baseline saves, and whether two of them ever had the baseline loaded and
\* not yet saved at the same time.
Workers == {"p1", "p2"}

Idle == [pc |-> "idle", observation |-> None, vectors |-> <<>>]

NoneRunning == [proc |-> [w \in Workers |-> Idle], saves |-> 0, raced |-> FALSE]

\* The data directory before the first run: nothing exists yet.
FreshDataDir ==
    [scans |-> NoDir, model_state |-> Absent, alerts |-> NoDir, responses |-> NoDir,
     audit_log |-> Absent]

NoCall == [op |-> "none", input |-> None, fault |-> NoFault, out |-> Returned(None)]

Init ==
    /\ fs = FreshDataDir
    /\ pre = FreshDataDir
    /\ last = NoCall
    /\ calls = 0
    /\ failures = 0
    /\ appended = <<>>
    /\ running = NoneRunning
    /\ earlier = <<>>

\* datetime.utcnow() during a call: the clock moves on between two calls.
utcnow == calls

\* str(uuid.uuid4()): an identifier no alert has had.
AlertIds == {"a1", "a2", "a3", "a4"}

uuid4(f) == CHOOSE id \in AlertIds : id \notin DOMAIN f.alerts.files

\* One call of an entry point: `res` is what it does under the fault the
\* environment chose, `clean` what it does when no write fails.  The fault is
\* recorded only when it changed something.
Call(op, input, fault, res, clean) ==
    /\ calls < MaxCalls
    /\ fs' = res.fs
    /\ pre' = fs
    /\ last' = [op |-> op, input |-> input,
                fault |-> IF res = clean THEN NoFault ELSE fault, out |-> res.out]
    /\ calls' = calls + 1
    /\ failures' = IF res = clean THEN failures ELSE failures + 1
    /\ UNCHANGED <<appended, running, earlier>>

----------------------------------------------------------------------------
(* run_pipeline_cycle, as `python -m trusted_ai_soc_lite` calls it *)

Target == "127.0.0.1"

\* What a scan of the target can find open.
OpenPorts ==
    {[host |-> Target, port |-> 22, service |-> "ssh"],
     [host |-> Target, port |-> 8080, service |-> "unknown"],
     [host |-> Target, port |-> 3306, service |-> "mysql"]}

NmapResults ==
    {[ok |-> FALSE, ports |-> <<>>]}
    \cup {[ok |-> TRUE, ports |-> p] : p \in SeqsUpTo(OpenPorts, MaxFindings)}

RunPipelineCycle(results, faults) ==
    \E nmap \in results, fault \in faults :
        Call("run_pipeline_cycle", nmap, fault,
             run_pipeline_cycle(fs, nmap, Target, utcnow, uuid4(fs), fault),
             run_pipeline_cycle(fs, nmap, Target, utcnow, uuid4(fs), NoFault))

Next == RunPipelineCycle(NmapResults, FaultsAt(WriteSteps))

Spec == Init /\ [][Next]_vars

----------------------------------------------------------------------------
(* analyze_scan, called on its own *)

Observations ==
    {ScanObservation(0, _build_findings_from_nmap(p)) : p \in SeqsUpTo(OpenPorts, MaxFindings)}
    \cup {ScanObservation(0, _simulate_findings(Target))}

AnalyzeScan(observations, faults) ==
    \E observation \in observations, fault \in faults :
        Call("analyze_scan", observation, fault,
             analyze_scan(fs, observation, fault),
             analyze_scan(fs, observation, NoFault))

NextAnalyze == AnalyzeScan(Observations, FaultsAt({"model_state"}))

SpecAnalyze == Init /\ [][NextAnalyze]_vars

----------------------------------------------------------------------------
(* The response actions, called on their own *)

DirectAlerts ==
    {AlertRecord(id, 0, "high", Title("high"), "Within learned baseline", ip, None) :
        id \in {"a1", "a2"}, ip \in {None, "10.0.0.5"}}

BlockIp(faults) ==
    \E alert \in DirectAlerts, fault \in faults :
        Call("block_ip", alert, fault,
             block_ip(fs, alert, utcnow, fault), block_ip(fs, alert, utcnow, NoFault))

SendEmail(faults) ==
    \E alert \in DirectAlerts, fault \in faults :
        Call("send_email", alert, fault,
             send_email(fs, alert, utcnow, fault), send_email(fs, alert, utcnow, NoFault))

CreateTicket(faults) ==
    \E alert \in DirectAlerts, fault \in faults :
        Call("create_ticket", alert, fault,
             create_ticket(fs, alert, utcnow, fault), create_ticket(fs, alert, utcnow, NoFault))

----------------------------------------------------------------------------
(* Every entry point that writes, under every write that raises *)

MaxFaultCalls == 2

IOErrors == {f \in FaultsAt(WriteSteps) : ~f.crash}

FewNmapResults == {r \in NmapResults : Len(r.ports) = 0}

FewObservations ==
    {ScanObservation(0, <<>>), ScanObservation(0, _simulate_findings(Target))}

NextFaults ==
    \/ calls < MaxFaultCalls /\ RunPipelineCycle(FewNmapResults, IOErrors)
    \/ calls < MaxFaultCalls /\ AnalyzeScan(FewObservations, IOErrors)
    \/ calls < MaxFaultCalls /\ BlockIp(IOErrors)
    \/ calls < MaxFaultCalls /\ SendEmail(IOErrors)
    \/ calls < MaxFaultCalls /\ CreateTicket(IOErrors)

SpecFaults == Init /\ [][NextFaults]_vars

----------------------------------------------------------------------------
(* The audit log, written and read by its two functions *)

Times == 0..MaxTime

AuditEntries ==
    {AuditEntry(t, "ai_engine", "generated_alert", [alert_id |-> "a1", severity |-> "low"]) :
        t \in Times}
    \cup {AuditEntry(t, "automation", "send_email",
                     [alert_id |-> "a1", subject |-> Title("high")]) : t \in Times}

AppendAuditEntry ==
    \E entry \in AuditEntries :
        /\ Len(appended) < MaxLogLines
        /\ fs' = append_audit_entry(fs, entry, NoFault, "audit_append").fs
        /\ pre' = fs
        /\ last' = [op |-> "append_audit_entry", input |-> entry, fault |-> NoFault,
                    out |-> append_audit_entry(fs, entry, NoFault, "audit_append").out]
        /\ appended' = Append(appended, entry)
        /\ UNCHANGED <<calls, failures, running, earlier>>

Limits == {<<>>} \cup {<<n>> : n \in 0..MaxLogLines}

LoadAuditEntries ==
    \E limit \in Limits :
        /\ pre' = fs
        /\ last' = [op |-> "load_audit_entries", input |-> limit, fault |-> NoFault,
                    out |-> load_audit_entries(fs, limit, utcnow)]
        /\ UNCHANGED <<fs, calls, failures, appended, running, earlier>>

NextAudit == AppendAuditEntry \/ LoadAuditEntries

SpecAudit == Init /\ [][NextAudit]_vars

\* A log as the reader may find it: any mix of records and other lines.
LogLines == {to_json(e) : e \in AuditEntries} \cup {Malformed(k) : k \in MalformedKinds}

InitRead ==
    /\ \E lines \in SeqsUpTo(LogLines, MaxLogLines) :
          fs = [FreshDataDir EXCEPT !.audit_log = LogFile(lines, NoTail)]
    /\ pre = fs
    /\ last = NoCall
    /\ calls = 0
    /\ failures = 0
    /\ appended = <<>>
    /\ running = NoneRunning
    /\ earlier = <<>>

NextRead == LoadAuditEntries

SpecRead == InitRead /\ [][NextRead]_vars

----------------------------------------------------------------------------
(* analyze_scan in two processes at once: each call is its load of the      *)
(* baseline (line 117), its save (line 136) and its end (line 144 raises),  *)
(* and the steps of the two processes interleave.  Each write_text is taken *)
(* as one step.                                                            *)

SetProc(w, p) == [running EXCEPT !.proc[w] = p]

Load(w) ==
    \E observation \in FewObservations :
        LET loaded == _load_historical_features(fs.model_state)
        IN  /\ calls < MaxCalls
            /\ running.proc[w].pc = "idle"
            /\ loaded.kind = "returned"
            /\ running' = [SetProc(w, [pc |-> "loaded", observation |-> observation,
                                       vectors |-> loaded.value.vectors])
                              EXCEPT !.raced = @ \/ \E o \in Workers \ {w} :
                                                        running.proc[o].pc = "loaded"]
            /\ calls' = calls + 1
            /\ UNCHANGED <<fs, pre, last, failures, appended, earlier>>

Save(w) ==
    LET p == running.proc[w]
        feature_vector == _extract_features(p.observation)
        saved == _save_historical_features(fs,
                    ExtendedHistory(p.vectors, feature_vector.values),
                    feature_vector.feature_names, NoFault)
    IN  /\ p.pc = "loaded"
        /\ fs' = saved.fs
        /\ pre' = fs
        /\ running' = [SetProc(w, [p EXCEPT !.pc = "saved"]) EXCEPT !.saves = @ + 1]
        /\ UNCHANGED <<last, calls, failures, appended, earlier>>

Explain(w) ==
    LET p == running.proc[w]
        feature_vector == _extract_features(p.observation)
        insights == build_insights(feature_vector,
                                   IF p.vectors = <<>> THEN NoMeans
                                   ELSE ListOf(_compute_baseline_stats(p.vectors).means))
    IN  /\ p.pc = "saved"
        /\ last' = [op |-> "analyze_scan", input |-> p.observation, fault |-> NoFault,
                    out |-> insights]
        /\ running' = SetProc(w, Idle)
        /\ UNCHANGED <<fs, pre, calls, failures, appended, earlier>>

NextConcurrent == \E w \in Workers : Load(w) \/ Save(w) \/ Explain(w)

SpecConcurrent == Init /\ [][NextConcurrent]_vars

----------------------------------------------------------------------------
(* analyze_scan run again on a baseline it has met before: between two runs *)
(* the environment may put back an earlier model_state.json                 *)
(* (MODEL_STATE_PATH, config.py:40, names the file).                        *)

AnalyzeRecorded ==
    \E observation \in FewObservations :
        LET res == analyze_scan(fs, observation, NoFault)
        IN  /\ calls < MaxCalls
            /\ fs' = res.fs
            /\ pre' = fs
            /\ last' = [op |-> "analyze_scan", input |-> observation, fault |-> NoFault,
                        out |-> res.out]
            /\ calls' = calls + 1
            /\ earlier' = Append(earlier, [baseline |-> fs.model_state,
                                           observation |-> observation,
                                           out |-> res.out,
                                           persisted |-> res.fs.model_state])
            /\ UNCHANGED <<failures, appended, running>>

RestoreModelState ==
    \E i \in 1..Len(earlier) :
        /\ fs.model_state # earlier[i].baseline
        /\ fs' = [fs EXCEPT !.model_state = earlier[i].baseline]
        /\ UNCHANGED <<pre, last, calls, failures, appended, running, earlier>>

NextAgain == AnalyzeRecorded \/ RestoreModelState

SpecAgain == Init /\ [][NextAgain]_vars

----------------------------------------------------------------------------
(* _extract_features on observations of any findings *)

\* Findings on critical and other ports, with and without vulnerability
\* identifiers, whatever the service.
AnyFindings ==
    {PortFinding(Target, port, service, None, cve) :
        port \in {22, 443, 3306, 8080}, service \in {"ssh", "unknown"},
        cve \in {<<>>, <<"CVE-2023-38408">>}}

AnyObservations == {ScanObservation(0, f) : f \in SeqsUpTo(AnyFindings, MaxFindings)}

ExtractFeatures ==
    \E observation \in AnyObservations :
        /\ calls = 0
        /\ last' = [op |-> "_extract_features", input |-> observation, fault |-> NoFault,
                    out |-> Returned(_extract_features(observation))]
        /\ calls' = 1
        /\ UNCHANGED <<fs, pre, failures, appended, running, earlier>>

NextFeatures == ExtractFeatures

SpecFeatures == Init /\ [][NextFeatures]_vars

----------------------------------------------------------------------------
(* _heuristic_risk on the feature vectors of the observations, with and     *)
(* without a baseline *)

FeatureValues == {_extract_features(o).values : o \in Observations}

\* No baseline (None), or the means of a history of one vector.
BaselineMeans == {<<>>} \cup {_compute_baseline_stats(<<v>>).means : v \in FeatureValues}

\* z-scores below, at and above those that change the score and the flag.
RiskZScores == {-10 * ZScale, 0, ZScale, AnomalyThreshold + 1, 10 * ZScale}

HeuristicRisk ==
    \E values \in FeatureValues, baseline_mean \in BaselineMeans, z_score \in RiskZScores :
        /\ calls = 0
        /\ last' = [op |-> "_heuristic_risk",
                    input |-> [values |-> values, baseline_mean |-> baseline_mean,
                               z_score |-> z_score],
                    fault |-> NoFault,
                    out |-> Returned(_heuristic_risk(values, baseline_mean, z_score))]
        /\ calls' = 1
        /\ UNCHANGED <<fs, pre, failures, appended, running, earlier>>

NextRisk == HeuristicRisk

SpecRisk == Init /\ [][NextRisk]_vars

----------------------------------------------------------------------------
(* build_insights on what analyze_scan hands it at line 144: the            *)
(* FeatureVector, and the baseline means or None *)

BuildInsights ==
    \E values \in FeatureValues, baseline_mean \in BaselineMeans :
        LET feature_vector == FeatureVector(values, FeatureNames)
            baseline_means == IF baseline_mean = <<>> THEN NoMeans ELSE ListOf(baseline_mean)
        IN  /\ calls = 0
            /\ last' = [op |-> "build_insights",
                        input |-> [model |-> feature_vector, feature_vector |-> baseline_means],
                        fault |-> NoFault,
                        out |-> build_insights(feature_vector, baseline_means)]
            /\ calls' = 1
            /\ UNCHANGED <<fs, pre, failures, appended, running, earlier>>

NextInsights == BuildInsights

SpecInsights == Init /\ [][NextInsights]_vars

----------------------------------------------------------------------------
(* The deviation signal of a vector against a history, lines 127-133 *)

MaxHistory == 2

\* The vectors of a scan that finds nothing, of one open port (ssh, mysql),
\* of two (ssh and 8080), and of the simulated findings.
SignalVectors ==
    {_extract_features(ScanObservation(0, _build_findings_from_nmap(p))).values :
        p \in {<<>>,
               <<[host |-> Target, port |-> 22, service |-> "ssh"]>>,
               <<[host |-> Target, port |-> 3306, service |-> "mysql"]>>,
               <<[host |-> Target, port |-> 22, service |-> "ssh"],
                 [host |-> Target, port |-> 8080, service |-> "unknown"]>>}}
    \cup {_extract_features(ScanObservation(0, _simulate_findings(Target))).values}

EvaluateSignal ==
    \E vectors \in UNION {[1..n -> SignalVectors] : n \in 1..MaxHistory},
       values \in SignalVectors :
        /\ calls = 0
        /\ last' = [op |-> "_avg_z_score",
                    input |-> [vectors |-> vectors, values |-> values],
                    fault |-> NoFault,
                    out |-> Returned([z_score |-> DeviationSignal(vectors, values),
                                      anomaly_flag |-> AnomalyFlag(vectors, values)])]
        /\ calls' = 1
        /\ UNCHANGED <<fs, pre, failures, appended, running, earlier>>

NextSignal == EvaluateSignal

SpecSignal == Init /\ [][NextSignal]_vars

----------------------------------------------------------------------------
(* _severity_from_score on the risk scores of [0, 10] *)

\* Scores are taken in steps of 1/ScoreScale.
ScoreScale == 1000

Scores == {Frac(n, ScoreScale) : n \in 0..(10 * ScoreScale)}

SeverityFromScore ==
    \E score \in Scores :
        /\ calls = 0
        /\ last' = [op |-> "_severity_from_score", input |-> score, fault |-> NoFault,
                    out |-> Returned(_severity_from_score(score))]
        /\ calls' = 1
        /\ UNCHANGED <<fs, pre, failures, appended, running, earlier>>

NextSeverity == SeverityFromScore

SpecSeverity == Init /\ [][NextSeverity]_vars

----------------------------------------------------------------------------
(* What the calls leave behind *)

\* The entries a reader finds in the audit log of a data directory.
EntriesIn(f) == ParseLines(readlines(f.audit_log), 0)

\* The entries the last call added to the audit log.
NewEntries ==
    LET before == EntriesIn(pre)
        after == EntriesIn(fs)
    IN  IF Len(after) > Len(before) THEN SubSeq(after, Len(before) + 1, Len(after)) ELSE <<>>

AutomationEntries == SelectSeq(NewEntries, LAMBDA e : e.actor = "automation")

\* The files the last call added to a directory.
NewFiles(dir) == DOMAIN fs[dir].files \ DOMAIN pre[dir].files

ScanSnapshots(f) == {n \in DOMAIN f.scans.files : n # NmapFailureName}

\* The observation a cycle's scan makes of what nmap reports.
ScannedFindings(nmap) ==
    IF nmap.ok THEN _build_findings_from_nmap(nmap.ports) ELSE _simulate_findings(Target)

\* The severity of the alert of a cycle that starts without a baseline.
ColdSeverity(nmap) ==
    _severity_from_score(
        _heuristic_risk(_extract_features(ScanObservation(0, ScannedFindings(nmap))).values,
                        <<>>, 0))

\* A cycle that met no failing write.
CleanCycle == last.op = "run_pipeline_cycle" /\ last.fault = NoFault

----------------------------------------------------------------------------
(* Claims *)

\* C1: a call of run_pipeline_cycle that meets no I/O failure ends in Done: it
\* returns an AlertRecord, and on return the data directory holds the alert's
\* file, a scan snapshot and the audit log.
C1_CycleReachesDone ==
    CleanCycle =>
        /\ last.out.kind = "returned"
        /\ last.out.value.id \in DOMAIN fs.alerts.files
        /\ ScanSnapshots(fs) # {}
        /\ fs.audit_log.kind # "absent"

\* C2: after N cycles from an empty data directory, none of which met an I/O
\* failure, model_state.json holds exactly N vectors.
C2_OneVectorPerCycle ==
    (calls > 0 /\ failures = 0) =>
        /\ fs.model_state.kind = "json"
        /\ Len(fs.model_state.vectors) = calls

C4_ResponsesMatchAuditEntries ==
    (CleanCycle /\ pre.model_state = Absent /\ ColdSeverity(last.input) \in ResponseSeverities) =>
        /\ Cardinality(NewFiles("responses")) =
              IF ScannedFindings(last.input) # <<>> THEN 3 ELSE 2
        /\ Len(AutomationEntries) = Cardinality(NewFiles("responses"))
        /\ \A i \in 1..Len(AutomationEntries) :
              \E n \in NewFiles("responses") : n[1] = AutomationEntries[i].context.alert_id

\* C5: when no baseline is persisted, analyze_scan returns a result with
\* anomaly_flag false and the reason "Baseline established from first
\* observation", and persists a history of exactly the current vector.
C5_ColdStart ==
    (last.op = "analyze_scan" /\ last.fault = NoFault /\ pre.model_state = Absent) =>
        /\ fs.model_state =
              ModelState(<<_extract_features(last.input).values>>, FeatureNames)
        /\ last.out.kind = "returned"
        /\ last.out.value.anomaly_flag = FALSE
        /\ last.out.value.anomaly_reason = "Baseline established from first observation"

\* C6: the audit log is append-only: it holds the entries that were appended,
\* all of them, in the order of their appending, and load_audit_entries with
\* no limit returns exactly those entries, each field as it was appended.
C6_AuditLogAppendOnly ==
    /\ EntriesIn(fs) = appended
    /\ Len(readlines(fs.audit_log)) = Len(appended)
    /\ (last.op = "load_audit_entries" /\ last.input = <<>>) => last.out = Returned(appended)

\* C6, its case: a read with no limit of a log of several entries, with and
\* without microseconds in their timestamps.
C6_Witness ==
    /\ last.op = "load_audit_entries"
    /\ last.input = <<>>
    /\ Len(appended) >= 2
    /\ \E i, j \in 1..Len(appended) :
          /\ appended[i].timestamp % MicrosPerSecond = 0
          /\ appended[j].timestamp % MicrosPerSecond # 0
          /\ appended[i].actor # appended[j].actor

\* C7: when model_state.json is empty or cut short, analyze_scan goes on as
\* on a cold start: it does not fail, and it persists a history of exactly the
\* current vector.
C7_CorruptBaselineIsColdStart ==
    (last.op = "analyze_scan" /\ last.fault = NoFault
        /\ pre.model_state.kind \in {"empty", "partial"}) =>
        /\ last.out # Raised("JSONDecodeError")
        /\ fs.model_state =
              ModelState(<<_extract_features(last.input).values>>, FeatureNames)

\* C8: a write that fails (of the baseline, of a response snapshot, of the
\* failure report, of an audit line) reaches the caller as the exception: the
\* call returns nothing; and every audit entry a call adds is that of a step
\* whose file is written whole: an automation entry has its response snapshot,
\* a generated_alert entry its alert file.
C8_WriteFailurePropagates ==
    /\ last.fault # NoFault => last.out = Raised("OSError")
    /\ \A i \in 1..Len(NewEntries) :
          LET e == NewEntries[i]
          IN  /\ e.action = "generated_alert" =>
                    Complete(FileOf(fs.alerts, e.context.alert_id))
              /\ e.action = "block_ip" =>
                    Complete(FileOf(fs.responses, <<e.context.alert_id, "block">>))
              /\ e.action = "send_email" =>
                    Complete(FileOf(fs.responses, <<e.context.alert_id, "email">>))
              /\ e.action = "create_ticket" =>
                    Complete(FileOf(fs.responses, <<e.context.alert_id, "ticket">>))

\* C8, its case: send_email, after an action that left its audit entry, fails
\* to write its snapshot; the call raises and the log gains nothing.
C8_Witness ==
    /\ last.op = "send_email"
    /\ last.fault.at = "response_email"
    /\ last.fault.effect \in {"empty", "partial"}
    /\ last.out = Raised("OSError")
    /\ ~Complete(FileOf(fs.responses, <<last.input.id, "email">>))
    /\ EntriesIn(pre) # <<>>
    /\ EntriesIn(fs) = EntriesIn(pre)

\* C9: when the process dies while analyze_scan saves the baseline,
\* model_state.json is afterwards either what it was or the new state, whole:
\* never an empty or a half-written file.
C9_BaselineSurvivesCrash ==
    (last.op = "analyze_scan" /\ last.out = Crashed) =>
        \/ fs.model_state = pre.model_state
        \/ /\ fs.model_state.kind = "json"
           /\ fs.model_state.vectors[Len(fs.model_state.vectors)] =
                 _extract_features(last.input).values

\* C10: load_audit_entries never fails on a log that holds malformed lines:
\* it returns the entries of the well-formed records, in order, and nothing
\* for any other line.
C10_MalformedLinesSkipped ==
    (last.op = "load_audit_entries" /\ last.input = <<>>) =>
        last.out = Returned(ParseLines(SelectSeq(readlines(fs.audit_log),
                                                 LAMBDA line : line.kind = "object"), 0))

\* C11: the severity of a risk score r of [0, 10] is exactly one of low,
\* medium, high, critical: critical iff r >= 7, high iff 5 <= r < 7, medium
\* iff 3 <= r < 5, low iff r < 3.
C11_SeverityThresholds ==
    last.op = "_severity_from_score" =>
        LET r == last.input
            severity == last.out.value
        IN  /\ last.out.kind = "returned"
            /\ severity \in {"low", "medium", "high", "critical"}
            /\ severity = "critical" <=> r.num >= 7 * r.den
            /\ severity = "high" <=> (r.num >= 5 * r.den /\ r.num < 7 * r.den)
            /\ severity = "medium" <=> (r.num >= 3 * r.den /\ r.num < 5 * r.den)
            /\ severity = "low" <=> r.num < 3 * r.den

\* C11, its case: the score 7.0, on a threshold, is critical.
C11_Witness ==
    /\ last.op = "_severity_from_score"
    /\ last.input = float(7)
    /\ last.out = Returned("critical")

\* C12: when two analyses interleave so that both load the baseline before
\* either saves it, an update is lost: once both have ended the persisted
\* history holds fewer vectors than there were saves.  When the analyses run
\* one at a time the history holds one vector per save.
C12_LostUpdate ==
    LET vectors == IF fs.model_state.kind = "json" THEN fs.model_state.vectors ELSE <<>>
        ended == \A w \in Workers : running.proc[w].pc = "idle"
    IN  /\ ~running.raced => Len(vectors) = running.saves
        /\ (running.raced /\ ended) => Len(vectors) < running.saves

\* C12, its case: two analyses that both loaded the empty history, both
\* saved and both ended; one vector is left of the two.
C12_Witness ==
    /\ running.raced
    /\ \A w \in Workers : running.proc[w].pc = "idle"
    /\ running.saves = 2
    /\ fs.model_state.kind = "json"
    /\ Len(fs.model_state.vectors) = 1
    /\ last.op = "analyze_scan"

\* C13: for every feature vector, every baseline (or none) and every z-score,
\* the risk score lies in [0, 10].
C13_RiskWithinBounds ==
    last.op = "_heuristic_risk" =>
        /\ last.out.kind = "returned"
        /\ last.out.value.den > 0
        /\ last.out.value.num >= 0
        /\ last.out.value.num <= 10 * last.out.value.den

\* C13, its case: a vector away from its baseline whose four terms add up
\* to more than 10, scored 10.
C13_Witness ==
    /\ last.op = "_heuristic_risk"
    /\ last.input.baseline_mean # <<>>
    /\ last.input.baseline_mean # last.input.values
    /\ last.input.z_score > 0
    /\ last.out = Returned(float(10))

\* What a finding counts for, dimension by dimension.
CountsFor(finding, dimension) ==
    CASE dimension = "high_risk" -> Len(finding.cve) >= 1
      [] dimension = "open_critical_ports" -> finding.port \in {22, 80, 443, 3389, 3306}

RECURSIVE Tally(_, _)
Tally(findings, dimension) ==
    IF findings = <<>> THEN 0
    ELSE (IF CountsFor(Head(findings), dimension) THEN 1 ELSE 0)
         + Tally(Tail(findings), dimension)

RECURSIVE PortSum(_)
PortSum(findings) ==
    IF findings = <<>> THEN 0 ELSE Head(findings).port + PortSum(Tail(findings))

\* C14: the features of an observation are, in this order, total_ports (the
\* number of findings), unique_services (the number of distinct services),
\* high_risk (the findings with at least one vulnerability identifier),
\* open_critical_ports (the findings on 22, 80, 443, 3389 or 3306) and
\* average_port (the mean of the ports, 0 without findings); an observation
\* without findings gives the all-zero vector, not a failure.
C14_FeatureExtraction ==
    last.op = "_extract_features" =>
        LET findings == last.input.findings
            v == last.out.value.values
        IN  /\ last.out.kind = "returned"
            /\ last.out.value.feature_names =
                  <<"total_ports", "unique_services", "high_risk", "open_critical_ports",
                    "average_port">>
            /\ Len(v) = 5
            /\ v[1] = float(Len(findings))
            /\ v[2] = float(Cardinality({findings[i].service : i \in 1..Len(findings)}))
            /\ v[3] = float(Tally(findings, "high_risk"))
            /\ v[4] = float(Tally(findings, "open_critical_ports"))
            /\ v[5].num * Len(findings) = PortSum(findings) * v[5].den
            /\ findings = <<>> => v = <<float(0), float(0), float(0), float(0), float(0)>>

\* C14, its case: two findings of one service, one of them with a
\* vulnerability identifier, one of them on a critical port.
C14_Witness ==
    /\ last.op = "_extract_features"
    /\ Len(last.input.findings) = 2
    /\ last.input.findings[1].service = last.input.findings[2].service
    /\ last.input.findings[1].cve # <<>>
    /\ last.input.findings[2].cve = <<>>
    /\ last.input.findings[1].port = 8080
    /\ last.input.findings[2].port = 3306
    /\ last.out.value.values = <<float(2), float(1), float(1), float(1), float(5693)>>

\* C15: the insight list the explainability engine returns for a feature
\* vector and a baseline mean (or none) has one insight per dimension, in the
\* order of descending absolute contribution, ties in the order of the
\* dimensions; for the all-zero vector with no baseline every contribution
\* is 0.
C15_InsightsOrdered ==
    last.op = "build_insights" =>
        LET insights == last.out.value
            values == last.input.model.values
        IN  /\ last.out.kind = "returned"
            /\ Len(insights) = Len(values)
            /\ \A i \in 1..(Len(insights) - 1) :
                  ~QLess(QAbs(insights[i].contribution), QAbs(insights[i + 1].contribution))
            /\ (last.input.feature_vector = NoMeans /\ \A j \in 1..Len(values) : values[j].num = 0)
                  => \A i \in 1..Len(insights) : insights[i].contribution.num = 0

C17_StagesInOrder ==
    CleanCycle =>
        /\ NewEntries # <<>>
        /\ NewEntries[1].action = "generated_alert"
        /\ Complete(FileOf(fs.alerts, NewEntries[1].context.alert_id))
        /\ \A i \in 2..Len(NewEntries) :
              /\ NewEntries[i].actor = "automation"
              /\ NewEntries[i].context.alert_id = NewEntries[1].context.alert_id
        /\ AutomationEntries = <<>> <=> NewEntries[1].context.severity = "low"

\* C18: for a triggered alert the automation entries that name it are, in the
\* order of the log, block_ip (when the alert has a related IP), send_email,
\* create_ticket.  (Stated for the cycles that start without a baseline.)
C18_ActionsInOrder ==
    (CleanCycle /\ pre.model_state = Absent /\ ColdSeverity(last.input) \in ResponseSeverities) =>
        [i \in 1..Len(AutomationEntries) |-> AutomationEntries[i].action] =
            (IF ScannedFindings(last.input) # <<>> THEN <<"block_ip">> ELSE <<>>)
            \o <<"send_email", "create_ticket">>

\* C19: the baseline is written only once the analysis has its flag, its
\* risk score and its insights: an analysis that fails leaves
\* model_state.json as it was, so that the history never holds more vectors
\* than there are alerts.
C19_FailedAnalysisLeavesBaseline ==
    /\ (last.op = "analyze_scan" /\ last.fault = NoFault /\ last.out.kind = "raised") =>
            fs.model_state = pre.model_state
    /\ fs.model_state.kind = "json" =>
            Len(fs.model_state.vectors) <= Cardinality(DOMAIN fs.alerts.files)

\* C20: a dimension without variance adds nothing to the anomaly signal: when
\* all the vectors of the history are the same (as when there is only one),
\* the deviation signal is 0 and the anomaly flag is false, however far the
\* current vector is from them.
C20_ZeroVarianceSilent ==
    (last.op = "_avg_z_score"
        /\ \A i \in 1..Len(last.input.vectors) : last.input.vectors[i] = last.input.vectors[1]) =>
        /\ last.out.value.z_score = 0
        /\ last.out.value.anomaly_flag = FALSE

\* C20, its case: a history of one vector, that of a scan that found
\* nothing, and a current vector far from it.
C20_Witness ==
    /\ last.op = "_avg_z_score"
    /\ Len(last.input.vectors) = 1
    /\ last.input.vectors[1][1] = float(0)
    /\ last.input.values[5] = float(4051)
    /\ last.out = Returned([z_score |-> 0, anomaly_flag |-> FALSE])

\* C21: every model_state.json that analyze_scan has written, starting from
\* a missing file, holds vectors of five values under the five names of the
\* extractor, and a call leaves the names of the file it found as they were.
C21_NamesAndLengths ==
    fs.model_state.kind = "json" =>
        /\ fs.model_state.feature_names = FeatureNames
        /\ Len(fs.model_state.feature_names) = 5
        /\ \A i \in 1..Len(fs.model_state.vectors) :
              Len(fs.model_state.vectors[i]) = Len(fs.model_state.feature_names)
        /\ pre.model_state.kind = "json" =>
              fs.model_state.feature_names = pre.model_state.feature_names

C21_Witness ==
    /\ last.op = "analyze_scan"
    /\ pre.model_state.kind = "json"
    /\ fs.model_state.kind = "json"
    /\ Len(fs.model_state.vectors) = Len(pre.model_state.vectors) + 1
    /\ Len(fs.model_state.vectors) >= 2
    /\ fs.model_state.feature_names = FeatureNames

\* C22: a cycle that starts without a baseline gives its alert the risk
\* score of the direct findings alone (no drift, no z-score addition); when
\* the scan finds ssh on port 22 and nothing else, the score is 4.25, the
\* severity is medium and the three response actions are taken.
C22_ColdStartRisk ==
    (CleanCycle /\ pre.model_state = Absent) =>
        /\ last.out.kind = "returned"
        /\ last.out.value.analysis.risk_score =
              _heuristic_risk(_extract_features(
                                  ScanObservation(0, ScannedFindings(last.input))).values,
                              <<>>, 0)
        /\ last.input = [ok |-> TRUE,
                         ports |-> <<[host |-> Target, port |-> 22, service |-> "ssh"]>>] =>
              /\ last.out.value.analysis.risk_score = Frac(17, 4)
              /\ last.out.value.severity = "medium"
              /\ {n[2] : n \in NewFiles("responses")} = {"block", "email", "ticket"}
              /\ Len(AutomationEntries) = 3

\* C23: load_audit_entries with a limit returns the last min(limit, K) of
\* the K entries of the log, in the order of their appending (none for the
\* limit 0), and all K with no limit.
C23_LimitKeepsLast ==
    last.op = "load_audit_entries" =>
        LET K == Len(appended)
            kept == IF last.input = <<>> THEN K
                    ELSE IF last.input[1] < K THEN last.input[1] ELSE K
        IN  last.out = Returned(SubSeq(appended, K - kept + 1, K))

C25_AlertsNeverMutated ==
    CleanCycle =>
        /\ Cardinality(NewFiles("alerts")) = 1
        /\ last.out.kind = "returned"
        /\ last.out.value.id \in NewFiles("alerts")
        /\ \A id \in DOMAIN pre.alerts.files :
              FileOf(fs.alerts, id) = pre.alerts.files[id]
        /\ \A n \in DOMAIN pre.responses.files :
              FileOf(fs.responses, n) = pre.responses.files[n]

====
